---- MODULE Spec2Model ----
(***************************************************************************)
(* A model of entipy: the data model (datamodels.py) and the two resolvers *)
(* (resolvers.py).                                                         *)
(*                                                                         *)
(* Conventions.                                                            *)
(*  - A Reference is a record [oid, fields, blocking_keys]; `fields` is a  *)
(*    function whose domain is field_names (the kwargs that were given)    *)
(*    and whose values are the Field values, None included.                *)
(*  - A Cluster is a record [oid, references, blocking_keys]; `references` *)
(*    is a set of Reference oids, looked up in `refs`.                     *)
(*  - cluster_map is a Python dict: a sequence of Clusters in insertion    *)
(*    order, keyed by the oid of each element.                             *)
(*  - Probabilities are counted in twentieths (18 is 0.9) and math.log is  *)
(*    taken in thousandths, rounded: scores are integers.                  *)
(***************************************************************************)
EXTENDS Integers, Sequences, FiniteSets, TLC

VARIABLES
    schema,          \* the Reference class: [fields, blocking_keys]
    refs,            \* the Reference objects constructed so far, by oid
    id_seq,          \* datamodels.id_seq: the next oid
    sr,              \* the SerialResolver: [references, clusters, cluster_map]
    pc,              \* where the SerialResolver's caller is
    ri,              \* resolve(): index of the reference being ingested
    active_clusters, \* _cluster_stream: the active clusters (a dict, in order)
    n_added,         \* how many of refs were handed to the SerialResolver
    ingested,        \* history: the references _cluster_stream was called with
    tie,             \* history: some pop chose among several maximal pairs
    split,           \* history: more than one resolve() call ingested references
    committed,       \* history: cluster_map when _cluster_stream last returned
    mr,              \* the MergeResolver: [references, cluster_map, merge_unit_size]
    mpc,             \* where MergeResolver.resolve() is
    layer_a,         \* MergeResolver.resolve: layer_a (SerialResolvers)
    layer_b,         \* MergeResolver.resolve: layer_b, also serial_resolvers
    mi,              \* MergeResolver.resolve: index in the current for loop
    calls,           \* how many times MergeResolver.resolve() was called
    cmp              \* the last comparison made on the data model, or NoCall

vars == <<schema, refs, id_seq, sr, pc, ri, active_clusters, n_added, ingested,
          tie, split, committed, mr, mpc, layer_a, layer_b, mi, calls, cmp>>

-----------------------------------------------------------------------------
(* Bounds *)

NRefs == 3

MaxCalls == 2

(* Python's None, and the values a field or a blocking key may take *)
None == "None"

FieldNames == {"f1", "f2"}

FieldValues == {"a", "b"}

-----------------------------------------------------------------------------
(* Helpers *)

Max(a, b) == IF a >= b THEN a ELSE b

RECURSIVE SumFn(_)
SumFn(f) ==
    IF DOMAIN f = {} THEN 0
    ELSE LET x == CHOOSE y \in DOMAIN f : TRUE
         IN  f[x] + SumFn([y \in DOMAIN f \ {x} |-> f[y]])

Range(s) == {s[k] : k \in DOMAIN s}

-----------------------------------------------------------------------------
(* datamodels.py: Field *)

true_match_probability == 18

false_match_probability == 2

(* round(1000 * ln n) for n = 1..19 *)
LnMilli == <<0, 693, 1099, 1386, 1609, 1792, 1946, 2079, 2197, 2303,
             2398, 2485, 2565, 2639, 2708, 2773, 2833, 2890, 2944>>

(* math.log(num / den), both in twentieths *)
Log(num, den) == LnMilli[num] - LnMilli[den]

(* The Field class of the base library: the defaults of lines 11-12, no exclude *)
Field == [true_match_probability  |-> true_match_probability,
          false_match_probability |-> false_match_probability,
          exclude                 |-> FALSE]

(* Variant: a comparator that is not symmetric *)
Field_compare_one_sided(self_value, other_value) ==
    self_value = other_value \/ self_value = "a"

(* Field.compare: value equality *)
Field_compare(self_value, other_value) == self_value = other_value

-----------------------------------------------------------------------------
(* datamodels.py: Reference *)

(* BlockingKey.compute() of a key class declared as in the tests: the value *)
(* of one field of its reference (self.reference.retail_store.value)        *)
BlockingKey_compute(source_field, kwargs) == kwargs[source_field]

(* Reference.__init__ for the class s: kwargs are the field values given;    *)
(* every BlockingKey class declared on s computes its value, and the dummy   *)
(* key is put when none is declared                                          *)
Reference(s, oid, kwargs) ==
    [oid           |-> oid,
     fields        |-> kwargs,
     blocking_keys |->
         IF DOMAIN s.blocking_keys = {} THEN [n \in {"BK"} |-> "0"]
         ELSE [n \in DOMAIN s.blocking_keys |->
                  BlockingKey_compute(s.blocking_keys[n], kwargs)]]

(* Variant: the two branches exchanged *)
fellegi_sunter_adjustment_swapped(eq, tmp, fmp) ==
    IF eq THEN Log(20 - tmp, 20 - fmp) ELSE Log(tmp, fmp)

fellegi_sunter_adjustment(eq, tmp, fmp) ==
    IF eq THEN Log(tmp, fmp) ELSE Log(20 - tmp, 20 - fmp)

(* Variant: the exclude test of line 118 left out *)
field_score_excluded_too(self, other, field_name) ==
    IF field_name \notin DOMAIN other.fields THEN 0
    ELSE IF self.fields[field_name] = None \/ other.fields[field_name] = None THEN 0
    ELSE fellegi_sunter_adjustment(
             Field_compare(self.fields[field_name], other.fields[field_name]),
             schema.fields[field_name].true_match_probability,
             schema.fields[field_name].false_match_probability)

(* Variant: the nil-skipping of lines 113-116 left out, an absent value *)
(* is compared like any other                                          *)
field_score_no_nil_skip(self, other, field_name) ==
    IF schema.fields[field_name].exclude THEN 0
    ELSE fellegi_sunter_adjustment(
             Field_compare(self.fields[field_name],
                           IF field_name \in DOMAIN other.fields
                           THEN other.fields[field_name] ELSE None),
             schema.fields[field_name].true_match_probability,
             schema.fields[field_name].false_match_probability)

(* What one field name adds to the score in Reference.compare *)
field_score(self, other, field_name) ==
    IF field_name \notin DOMAIN other.fields THEN 0
    ELSE IF self.fields[field_name] = None \/ other.fields[field_name] = None THEN 0
    ELSE IF schema.fields[field_name].exclude THEN 0
    ELSE fellegi_sunter_adjustment(
             Field_compare(self.fields[field_name], other.fields[field_name]),
             schema.fields[field_name].true_match_probability,
             schema.fields[field_name].false_match_probability)

Reference_compare(self, other) ==
    SumFn([field_name \in DOMAIN self.fields |-> field_score(self, other, field_name)])

(* Whether Reference.compare calls the user's Field.compare at least once *)
CallsFieldCompare(self, other) ==
    \E fn \in DOMAIN self.fields :
        /\ fn \in DOMAIN other.fields
        /\ self.fields[fn] # None /\ other.fields[fn] # None
        /\ ~schema.fields[fn].exclude

-----------------------------------------------------------------------------
(* datamodels.py: Cluster *)

(* Variant: a blocking key holds the values all the references have, not *)
(* the values any of them has                                            *)
Cluster_shared_values(oid, references) ==
    LET blocking_key_names == UNION {DOMAIN refs[r].blocking_keys : r \in references}
    IN  [oid           |-> oid,
         references    |-> references,
         blocking_keys |->
             [bkn \in blocking_key_names |->
                 {v \in {refs[r].blocking_keys[bkn] : r \in references} \ {None} :
                     \A r \in references : refs[r].blocking_keys[bkn] = v}]]

Cluster(oid, references) ==
    LET blocking_key_names == UNION {DOMAIN refs[r].blocking_keys : r \in references}
    IN  [oid           |-> oid,
         references    |-> references,
         blocking_keys |->
             [bkn \in blocking_key_names |->
                 {refs[r].blocking_keys[bkn] :
                     r \in {q \in references :
                              /\ bkn \in DOMAIN refs[q].blocking_keys
                              /\ refs[q].blocking_keys[bkn] # None}}]]

(* Variant: blocking is not enforced *)
has_common_block_always(self, other) == TRUE

(* Variant: a shared key name is enough, the values are not intersected *)
has_common_block_any_key(self, other) ==
    (DOMAIN self.blocking_keys) \cap (DOMAIN other.blocking_keys) # {}

has_common_block(self, other) ==
    \E bkn \in (DOMAIN self.blocking_keys) \cup (DOMAIN other.blocking_keys) :
        /\ bkn \in DOMAIN self.blocking_keys
        /\ bkn \in DOMAIN other.blocking_keys
        /\ self.blocking_keys[bkn] \cap other.blocking_keys[bkn] # {}

(* The sum of ref_1.compare(ref_2) over self.references x other.references *)
PairwiseScore(self, other) ==
    SumFn([p \in self.references \X other.references |->
              Reference_compare(refs[p[1]], refs[p[2]])])

Cluster_compare(self, other) ==
    IF ~has_common_block(self, other) THEN 0 ELSE PairwiseScore(self, other)

(* Variant: the score is returned as it is, without max(0, score) *)
weightsum_unclamped(self, other) ==
    IF ~has_common_block(self, other) THEN 0 ELSE PairwiseScore(self, other)

weightsum(self, other) ==
    IF ~has_common_block(self, other) THEN 0
    ELSE Max(0, PairwiseScore(self, other))

(* Variant: the merged cluster takes the references of self alone *)
merge_self_only(self, other, oid) == Cluster(oid, self.references)

(* Variant: the merged cluster keeps the oid of self, no oid is taken *)
merge_keep_oid(self, other, oid) ==
    Cluster(self.oid, self.references \cup other.references)

(* Cluster.merge; the new Cluster takes the next oid *)
merge(self, other, oid) == Cluster(oid, self.references \cup other.references)

-----------------------------------------------------------------------------
(* datamodels.py: Pair *)

Pair(cluster_oid_1, cluster_oid_2, possible_improvement) ==
    [cluster_oid_1 |-> IF cluster_oid_1 <= cluster_oid_2 THEN cluster_oid_1 ELSE cluster_oid_2,
     cluster_oid_2 |-> IF cluster_oid_1 <= cluster_oid_2 THEN cluster_oid_2 ELSE cluster_oid_1,
     possible_improvement |-> possible_improvement]

(* SortedSet built by add() in this order: an element equal to an earlier one *)
(* is not added again; equal scores stay in insertion order (bisect_right)   *)
SortedSet(added) ==
    LET First(k) == \A j \in 1..(k - 1) : added[j] # added[k]
        kept == SelectSeq([k \in 1..Len(added) |-> k], First)
    IN  [k \in 1..Len(kept) |-> added[kept[k]]]

MaxScore(pair_set) ==
    CHOOSE m \in {pair_set[k].possible_improvement : k \in DOMAIN pair_set} :
        \A k \in DOMAIN pair_set : pair_set[k].possible_improvement <= m

(* Variant: pop(0), the first element in sorted order *)
pop_first(pair_set) ==
    LET Least(k) == \A j \in DOMAIN pair_set :
                        pair_set[k].possible_improvement <= pair_set[j].possible_improvement
        bottom == {k \in DOMAIN pair_set : Least(k)}
    IN  pair_set[CHOOSE k \in bottom : \A j \in bottom : k <= j]

(* SortedSet.pop(): the last element in sorted order; among equal scores the *)
(* one added last                                                            *)
pop(pair_set) ==
    LET top == {k \in DOMAIN pair_set :
                   pair_set[k].possible_improvement = MaxScore(pair_set)}
    IN  pair_set[CHOOSE k \in top : \A j \in top : j <= k]

(* Several pairs share the maximal score: pop() decides by insertion order *)
HasTie(pair_set) ==
    /\ pair_set # <<>>
    /\ Cardinality({k \in DOMAIN pair_set :
                       pair_set[k].possible_improvement = MaxScore(pair_set)}) > 1

-----------------------------------------------------------------------------
(* A dict {oid: cluster} in insertion order *)

HasOid(cluster_map, oid) == \E k \in DOMAIN cluster_map : cluster_map[k].oid = oid

Get(cluster_map, oid) ==
    cluster_map[CHOOSE k \in DOMAIN cluster_map : cluster_map[k].oid = oid]

Del(cluster_map, oid) ==
    LET Other(c) == c.oid # oid IN SelectSeq(cluster_map, Other)

(* cluster_map[c.oid] = c *)
Put(cluster_map, c) ==
    IF HasOid(cluster_map, c.oid)
    THEN [k \in DOMAIN cluster_map |->
             IF cluster_map[k].oid = c.oid THEN c ELSE cluster_map[k]]
    ELSE Append(cluster_map, c)

(* The (c1, c2) of two nested for loops over two sequences of clusters *)
Nested(a, b) ==
    [k \in 1..(Len(a) * Len(b)) |->
        <<a[((k - 1) \div Len(b)) + 1], b[((k - 1) % Len(b)) + 1]>>]

(* Pair(oid_1, oid_2, weightsum) of the two clusters s *)
scored_pair(s) == Pair(s[1].oid, s[2].oid, weightsum(s[1], s[2]))

(* pair = Pair(...); pair_set.add(pair) for the cluster pairs found, in order *)
scored_pairs(found) ==
    SortedSet([k \in 1..Len(found) |-> scored_pair(found[k])])

-----------------------------------------------------------------------------
(* resolvers.py: SerialResolver *)

(* {c.oid: c for c in clusters} *)
RECURSIVE DictOf(_)
DictOf(clusters) ==
    IF clusters = <<>> THEN <<>>
    ELSE Put(DictOf(SubSeq(clusters, 1, Len(clusters) - 1)), clusters[Len(clusters)])

(* SerialResolver(references) *)
SerialResolver(references) ==
    [references  |-> references,
     clusters    |-> <<>>,
     cluster_map |-> <<>>]

(* SerialResolver(None, _clusters=clusters); self.references is not set *)
SerialResolver_clusters(clusters) ==
    [references  |-> <<>>,
     clusters    |-> <<>>,
     cluster_map |-> DictOf(clusters)]

(* Variant: line 75 left out, a pair is a candidate whatever it weighs *)
pass_candidates_any(cluster_map) ==
    LET Ordered(s) == s[1].oid < s[2].oid
    IN  scored_pairs(SelectSeq(Nested(cluster_map, cluster_map), Ordered))

(* _cluster_pass, lines 70-77: the candidates *)
pass_candidates(cluster_map) ==
    LET Positive(s) ==
            /\ s[1].oid < s[2].oid
            /\ weightsum(s[1], s[2]) > 0
    IN  scored_pairs(SelectSeq(Nested(cluster_map, cluster_map), Positive))

(* Variant: line 90 left out, cluster_2 stays in the map *)
pass_merge_keep_2(cluster_map, best_pair, id) ==
    [cluster_map |->
         Put(Del(cluster_map, best_pair.cluster_oid_1),
             merge(Get(cluster_map, best_pair.cluster_oid_1),
                   Get(cluster_map, best_pair.cluster_oid_2), id)),
     is_optimal  |-> FALSE,
     id_seq      |-> id + 1]

(* _cluster_pass, lines 82-92: the clusters of the best pair are merged *)
pass_merge(cluster_map, best_pair, id) ==
    [cluster_map |->
         Put(Del(Del(cluster_map, best_pair.cluster_oid_1), best_pair.cluster_oid_2),
             merge(Get(cluster_map, best_pair.cluster_oid_1),
                   Get(cluster_map, best_pair.cluster_oid_2), id)),
     is_optimal  |-> FALSE,
     id_seq      |-> id + 1]

(* Variant: every pass reports the map optimal, nothing is merged *)
pass_best_optimal(cluster_map, candidates, id) ==
    [cluster_map |-> cluster_map, is_optimal |-> TRUE, id_seq |-> id]

(* _cluster_pass, lines 78-92 *)
pass_best(cluster_map, candidates, id) ==
    IF candidates = <<>>
    THEN [cluster_map |-> cluster_map, is_optimal |-> TRUE, id_seq |-> id]
    ELSE pass_merge(cluster_map, pop(candidates), id)

cluster_pass(cluster_map, id) ==
    pass_best(cluster_map, pass_candidates(cluster_map), id)

(* _cluster_solve, lines 112-117: the loop after a _cluster_pass *)
RECURSIVE solve_loop(_, _)
solve_loop(pass, changed) ==
    IF pass.is_optimal
    THEN [cluster_map |-> pass.cluster_map, changed |-> changed, id_seq |-> pass.id_seq]
    ELSE solve_loop(cluster_pass(pass.cluster_map, pass.id_seq), TRUE)

cluster_solve(cluster_map, id) ==
    solve_loop(cluster_pass(cluster_map, id), FALSE)

(* _cluster_stream, lines 140-150: the new cluster enters cluster_map; the *)
(* state in which the completion loop is entered                          *)
stream_insert(new_observations, cluster_map, id) ==
    [cluster_map     |-> Put(cluster_map, Cluster(id, new_observations)),
     active_clusters |-> <<Cluster(id, new_observations)>>,
     id_seq          |-> id + 1,
     exit            |-> FALSE,
     tie             |-> FALSE]

(* _cluster_stream, lines 155-162: the pairs of one pass of the completion loop *)
stream_pair_set(cluster_map, active) ==
    LET Positive(s) ==
            /\ s[1].oid # s[2].oid
            /\ weightsum(s[1], s[2]) > 0
    IN  scored_pairs(SelectSeq(Nested(active, cluster_map), Positive))

(* Variant: the merged cluster is not marked active (line 182 left out) *)
stream_write_back_inactive(cluster_map, solution, cluster_oid_1, cluster_oid_2) ==
    LET IsNew(c) == ~HasOid(cluster_map, c.oid)
        with_new == cluster_map \o SelectSeq(solution, IsNew)
        less_1 == IF HasOid(solution, cluster_oid_1) THEN with_new
                  ELSE Del(with_new, cluster_oid_1)
        less_2 == IF HasOid(solution, cluster_oid_2) THEN less_1
                  ELSE Del(less_1, cluster_oid_2)
    IN  [cluster_map |-> less_2, active_clusters |-> <<>>,
         id_seq |-> 0, exit |-> FALSE, tie |-> FALSE]

(* Variant: cluster_2 is never removed (lines 186-187 left out) *)
stream_write_back_keep_2(cluster_map, solution, cluster_oid_1, cluster_oid_2) ==
    LET IsNew(c) == ~HasOid(cluster_map, c.oid)
        new == SelectSeq(solution, IsNew)
        with_new == cluster_map \o new
        less_1 == IF HasOid(solution, cluster_oid_1) THEN with_new
                  ELSE Del(with_new, cluster_oid_1)
    IN  [cluster_map |-> less_1, active_clusters |-> new,
         id_seq |-> 0, exit |-> FALSE, tie |-> FALSE]

(* Lines 179-187: the local solution goes back into cluster_map *)
stream_write_back(cluster_map, solution, cluster_oid_1, cluster_oid_2) ==
    LET IsNew(c) == ~HasOid(cluster_map, c.oid)
        new == SelectSeq(solution, IsNew)
        with_new == cluster_map \o new
        less_1 == IF HasOid(solution, cluster_oid_1) THEN with_new
                  ELSE Del(with_new, cluster_oid_1)
        less_2 == IF HasOid(solution, cluster_oid_2) THEN less_1
                  ELSE Del(less_1, cluster_oid_2)
    IN  [cluster_map |-> less_2, active_clusters |-> new,
         id_seq |-> 0, exit |-> FALSE, tie |-> FALSE]

(* Lines 179-187 with the local solution at hand *)
stream_solved(cluster_map, best_pair, solved, tied) ==
    [stream_write_back(cluster_map, solved.cluster_map,
                       best_pair.cluster_oid_1, best_pair.cluster_oid_2)
        EXCEPT !.id_seq = solved.id_seq, !.tie = tied]

(* Variant: the whole cluster_map is solved again, not the two clusters of *)
(* the best pair                                                          *)
stream_best_whole(cluster_map, best_pair, tied, id) ==
    stream_solved(cluster_map, best_pair, cluster_solve(cluster_map, id), tied)

(* Lines 168-187: the clusters of the best pair are solved locally *)
stream_best(cluster_map, best_pair, tied, id) ==
    stream_solved(cluster_map, best_pair,
                  cluster_solve(<<Get(cluster_map, best_pair.cluster_oid_1),
                                  Get(cluster_map, best_pair.cluster_oid_2)>>, id),
                  tied)

(* Lines 164-187: the loop ends on an empty pair_set, else the best pair *)
(* is popped                                                             *)
stream_pass(cluster_map, pair_set, id) ==
    IF pair_set = <<>>
    THEN [cluster_map |-> cluster_map, active_clusters |-> <<>>,
          id_seq |-> id, exit |-> TRUE, tie |-> FALSE]
    ELSE stream_best(cluster_map, pop(pair_set), HasTie(pair_set), id)

(* _cluster_stream, lines 152-187: one pass of the completion loop *)
stream_iteration(cluster_map, active, id) ==
    stream_pass(cluster_map, stream_pair_set(cluster_map, active), id)

(* The completion loop from the state it is in *)
RECURSIVE completion_loop(_)
completion_loop(it) ==
    IF it.exit THEN [cluster_map |-> it.cluster_map, id_seq |-> it.id_seq]
    ELSE completion_loop(stream_iteration(it.cluster_map, it.active_clusters, it.id_seq))

(* Variant: the new cluster is inserted and the completion loop is not run *)
cluster_stream_insert_only(new_observations, cluster_map, id) ==
    [cluster_map |-> stream_insert(new_observations, cluster_map, id).cluster_map,
     id_seq      |-> id + 1]

(* _cluster_stream as a whole; new_observations is the reference set of the *)
(* Reference or of the Cluster handed in                                     *)
cluster_stream(new_observations, cluster_map, id) ==
    completion_loop(stream_insert(new_observations, cluster_map, id))

(* resolve(), line 206, repeated from the i-th pending reference on; st is *)
(* the cluster_map and the id counter so far                               *)
RECURSIVE resolve_loop(_, _, _)
resolve_loop(references, i, st) ==
    IF i > Len(references) THEN st
    ELSE resolve_loop(references, i + 1,
                      cluster_stream({references[i]}, st.cluster_map, st.id_seq))

(* Variant: line 207 left out, the queue is kept *)
resolve_return_kept(self) == self

(* resolve(), line 207 *)
resolve_return(self) == [self EXCEPT !.references = <<>>]

(* resolve(), lines 206-207: the cluster_map is assigned *)
resolve_assign(self, st) ==
    [self   |-> resolve_return([self EXCEPT !.cluster_map = st.cluster_map]),
     id_seq |-> st.id_seq]

(* SerialResolver.resolve() as one call *)
resolve(self, id) ==
    resolve_assign(self, resolve_loop(self.references, 1,
                             [cluster_map |-> self.cluster_map, id_seq |-> id]))

add_clusters(self, clusters) == [self EXCEPT !.clusters = @ \o clusters]

RECURSIVE resolve_clusters_loop(_, _, _)
resolve_clusters_loop(clusters, i, st) ==
    IF i > Len(clusters) THEN st
    ELSE resolve_clusters_loop(clusters, i + 1,
             cluster_stream(clusters[i].references, st.cluster_map, st.id_seq))

(* _resolve_clusters, lines 198-199 *)
resolve_clusters_assign(self, st) ==
    [self   |-> [self EXCEPT !.cluster_map = st.cluster_map, !.clusters = <<>>],
     id_seq |-> st.id_seq]

(* Variant: the queued clusters are stored without _cluster_stream *)
resolve_clusters_unsolved(self, id) ==
    [self   |-> [self EXCEPT !.cluster_map = DictOf(self.cluster_map \o self.clusters),
                             !.clusters = <<>>],
     id_seq |-> id]

resolve_clusters(self, id) ==
    resolve_clusters_assign(self, resolve_clusters_loop(self.clusters, 1,
                                      [cluster_map |-> self.cluster_map, id_seq |-> id]))

get_clusters(self) == self.cluster_map

-----------------------------------------------------------------------------
(* resolvers.py: MergeResolver *)

MergeResolver(references, merge_unit_size) ==
    [references      |-> references,
     cluster_map     |-> <<>>,
     merge_unit_size |-> merge_unit_size]

(* Variant: only whole slices, as range(0, len(s) - size + 1, size) gives *)
Slices_whole(s, size) ==
    [k \in 1..(Len(s) \div size) |-> SubSeq(s, (k - 1) * size + 1, k * size)]

(* s[n : n + size] for n in range(0, len(s), size) *)
Slices(s, size) ==
    [k \in 1..((Len(s) + size - 1) \div size) |->
        SubSeq(s, (k - 1) * size + 1,
               IF k * size <= Len(s) THEN k * size ELSE Len(s))]

(* Lines 248-256 *)
portions(self) == Slices(self.references, self.merge_unit_size)

(* Lines 273-277: sr = SerialResolver(None, _clusters=a); sr._add_clusters(b); *)
(* sr._resolve_clusters()                                                     *)
merge_clusters(clusters_a, clusters_b, id) ==
    resolve_clusters(add_clusters(SerialResolver_clusters(clusters_a), clusters_b), id)

(* Variant: the odd resolver left over is not carried forward *)
pyramid_pair_drop_odd(srs, id) ==
    IF Len(srs) = 1 THEN [self |-> SerialResolver(<<>>), id_seq |-> id]
    ELSE merge_clusters(get_clusters(srs[1]), get_clusters(srs[2]), id)

(* Lines 271-278: one pair of the layer, or the odd resolver left over *)
pyramid_pair(srs, id) ==
    IF Len(srs) = 1 THEN [self |-> srs[1], id_seq |-> id]
    ELSE merge_clusters(get_clusters(srs[1]), get_clusters(srs[2]), id)

(* Line 286: self.cluster_map = main_sr.cluster_map *)
assign_cluster_map(self, done) ==
    [self   |-> [self EXCEPT !.cluster_map = done.self.cluster_map],
     id_seq |-> done.id_seq]

(* Variant: line 286 left out, self.cluster_map is not assigned *)
merge_into_main_unassigned(self, new_sr, id) ==
    [self   |-> self,
     id_seq |-> merge_clusters(self.cluster_map, get_clusters(new_sr), id).id_seq]

(* Lines 282-286: the last resolver's clusters enter the existing cluster_map *)
merge_into_main(self, new_sr, id) ==
    assign_cluster_map(self, merge_clusters(self.cluster_map, get_clusters(new_sr), id))

(* Variant: the references are appended, as SerialResolver.add does *)
MergeResolver_add_appending(self, is_list, new_observation) ==
    [self EXCEPT !.references =
        IF is_list THEN @ \o new_observation ELSE Append(@, new_observation[1])]

(* MergeResolver.add, lines 295-297: pass *)
MergeResolver_add(self, is_list, new_observation) == self

-----------------------------------------------------------------------------
(* The inputs: a Reference class (schema) and the References built from it *)

FieldClass(tmp, fmp, exclude) ==
    [true_match_probability |-> tmp, false_match_probability |-> fmp,
     exclude |-> exclude]

NoKeys == [n \in {} |-> "f1"]

(* The Reference classes the resolvers are run on.  Without blocking key:  *)
(* the base Field on both fields, or a second field of lower weight.  With *)
(* one: the class of the tests, whose second field is excluded and feeds   *)
(* the blocking key RSBK                                                   *)
ResolverSchemas ==
    {[fields |-> [fn \in FieldNames |-> IF fn = "f1" THEN Field ELSE Field],
      blocking_keys |-> NoKeys],
     [fields |-> [fn \in FieldNames |->
                     IF fn = "f1" THEN Field ELSE FieldClass(16, 4, FALSE)],
      blocking_keys |-> NoKeys],
     [fields |-> [fn \in FieldNames |->
                     IF fn = "f1" THEN Field ELSE FieldClass(true_match_probability, false_match_probability, TRUE)],
      blocking_keys |-> [n \in {"RSBK"} |-> "f2"]]}

(* The keyword arguments of the References given to a resolver: f1 always; *)
(* f2 left out (no blocking key reads it), None, or a value                *)
ResolverKwargs(s) ==
    {kw \in UNION {[D -> FieldValues \cup {None}] : D \in {{"f1"}, FieldNames}} :
        /\ kw["f1"] # None
        /\ ("f2" \in DOMAIN kw /\ kw["f2"] = None) => DOMAIN s.blocking_keys # {}
        /\ DOMAIN s.blocking_keys # {} => "f2" \in DOMAIN kw}

Construct(s, n, kw) ==
    [oid \in 0..(n - 1) |-> Reference(s, oid, kw[oid])]

(* The Reference classes Reference.compare is applied to: on f1 every pair of *)
(* a low and a high probability, on f2 the base Field, an excluded one, or   *)
(* the Field of the tests (0.85, 0.15)                                       *)
CompareSchemas ==
    {[fields |-> [fn \in FieldNames |-> IF fn = "f1" THEN c1 ELSE c2],
      blocking_keys |-> NoKeys] :
        c1 \in {FieldClass(tmp, fmp, FALSE) :
                   tmp \in {false_match_probability, true_match_probability},
                   fmp \in {false_match_probability, true_match_probability}},
        c2 \in {Field, FieldClass(true_match_probability, false_match_probability, TRUE), FieldClass(17, 3, FALSE)}}

(* Any keyword arguments: each field left out, None, or a value *)
AnyKwargs == UNION {[D -> FieldValues \cup {None}] : D \in SUBSET FieldNames}

NoCall == [op |-> "none"]

MergeIdle ==
    /\ mr = [references |-> <<>>, cluster_map |-> <<>>, merge_unit_size |-> 1]
    /\ mpc = "none"
    /\ layer_a = <<>>
    /\ layer_b = <<>>
    /\ mi = 0
    /\ calls = 0

SerialIdle ==
    /\ sr = SerialResolver(<<>>)
    /\ pc = "none"
    /\ ri = 0
    /\ active_clusters = <<>>
    /\ n_added = 0
    /\ ingested = <<>>
    /\ tie = FALSE
    /\ split = FALSE
    /\ committed = <<>>

(* References constructed, then SerialResolver(references[:k]) *)
Init ==
    \E s \in ResolverSchemas, n \in 0..NRefs :
      \E kw \in [0..(n - 1) -> ResolverKwargs(s)], k \in 0..n :
        /\ schema = s
        /\ refs = Construct(s, n, kw)
        /\ id_seq = n
        /\ sr = SerialResolver([j \in 1..k |-> j - 1])
        /\ pc = "constructed"
        /\ ri = 0
        /\ active_clusters = <<>>
        /\ n_added = k
        /\ ingested = <<>>
        /\ tie = FALSE
        /\ split = FALSE
        /\ committed = <<>>
        /\ MergeIdle
        /\ cmp = NoCall

mergeVars == <<mr, mpc, layer_a, layer_b, mi, calls>>

serialVars == <<sr, pc, ri, active_clusters, n_added, ingested, tie, split,
                committed>>

Idle == pc \in {"constructed", "added", "returned"}

NumRefs == Cardinality(DOMAIN refs)

(* Variant: a list is appended like a single reference, its first element *)
add_first_only(is_list, new_observation) ==
    /\ Idle
    /\ sr' = [sr EXCEPT !.references = Append(@, new_observation[1])]
    /\ n_added' = n_added + Len(new_observation)
    /\ pc' = "added"
    /\ UNCHANGED <<schema, refs, id_seq, ri, active_clusters, ingested, tie,
                   split, committed, mergeVars, cmp>>

(* SerialResolver.add: a list of the next references, or one reference *)
add(is_list, new_observation) ==
    /\ Idle
    /\ sr' = [sr EXCEPT !.references =
                 IF is_list THEN @ \o new_observation
                 ELSE Append(@, new_observation[1])]
    /\ n_added' = n_added + Len(new_observation)
    /\ pc' = "added"
    /\ UNCHANGED <<schema, refs, id_seq, ri, active_clusters, ingested, tie,
                   split, committed, mergeVars, cmp>>

Add ==
    \E k \in 1..(NumRefs - n_added), is_list \in BOOLEAN :
        /\ ~is_list => k = 1
        /\ add(is_list, [j \in 1..k |-> n_added + j - 1])

(* resolve() is called *)
resolve_call ==
    /\ Idle
    /\ pc' = "resolve"
    /\ ri' = 1
    /\ UNCHANGED <<schema, refs, id_seq, sr, active_clusters, n_added, ingested,
                   tie, split, committed, mergeVars, cmp>>

(* resolve(), line 203 and 206-207: the next reference enters              *)
(* _cluster_stream (lines 140-150), or the loop ends and resolve returns   *)
resolve_next ==
    /\ pc = "resolve"
    /\ IF ri > Len(sr.references)
       THEN /\ sr' = resolve_return(sr)
            /\ pc' = "returned"
            /\ ri' = 0
            /\ UNCHANGED <<id_seq, active_clusters, ingested, split>>
       ELSE \E ins \in {stream_insert({sr.references[ri]}, sr.cluster_map, id_seq)} :
                /\ sr' = [sr EXCEPT !.cluster_map = ins.cluster_map]
                /\ active_clusters' = ins.active_clusters
                /\ id_seq' = ins.id_seq
                /\ ingested' = Append(ingested, sr.references[ri])
                /\ split' = (split \/ (ri = 1 /\ ingested # <<>>))
                /\ pc' = "stream"
                /\ UNCHANGED ri
    /\ UNCHANGED <<schema, refs, n_added, tie, committed, mergeVars, cmp>>

(* _cluster_stream: one pass of the completion loop; on exit the reference *)
(* is ingested and resolve() goes on to the next                           *)
stream_step ==
    /\ pc = "stream"
    /\ \E it \in {stream_iteration(sr.cluster_map, active_clusters, id_seq)} :
           /\ sr' = [sr EXCEPT !.cluster_map = it.cluster_map]
           /\ active_clusters' = it.active_clusters
           /\ id_seq' = it.id_seq
           /\ tie' = (tie \/ it.tie)
           /\ pc' = IF it.exit THEN "resolve" ELSE "stream"
           /\ ri' = IF it.exit THEN ri + 1 ELSE ri
           /\ committed' = IF it.exit THEN it.cluster_map ELSE committed
    /\ UNCHANGED <<schema, refs, n_added, ingested, split, mergeVars, cmp>>

(* Whether this pass of the completion loop reaches a Field.compare call *)
(* (line 159, through Cluster.weightsum and Reference.compare)           *)
PassCallsFieldCompare ==
    \E a \in DOMAIN active_clusters, k \in DOMAIN sr.cluster_map :
        /\ active_clusters[a].oid # sr.cluster_map[k].oid
        /\ has_common_block(active_clusters[a], sr.cluster_map[k])
        /\ \E r1 \in active_clusters[a].references,
              r2 \in sr.cluster_map[k].references :
                CallsFieldCompare(refs[r1], refs[r2])

(* A user-supplied Field.compare raises inside _cluster_stream: the       *)
(* exception leaves resolve() and reaches the caller                      *)
compare_raises ==
    /\ pc = "stream"
    /\ PassCallsFieldCompare
    /\ pc' = "raised"
    /\ UNCHANGED <<schema, refs, id_seq, sr, ri, active_clusters, n_added,
                   ingested, tie, split, committed, mergeVars, cmp>>

(* MergeResolver.resolve() is called: lines 248-256 *)
mr_resolve_call ==
    /\ mpc \in {"constructed", "returned"}
    /\ calls < MaxCalls
    /\ calls' = calls + 1
    /\ layer_b' = [k \in DOMAIN portions(mr) |-> SerialResolver(portions(mr)[k])]
    /\ layer_a' = <<>>
    /\ mi' = 1
    /\ mpc' = "portions"
    /\ UNCHANGED <<schema, refs, id_seq, mr, serialVars, cmp>>

(* Lines 257-263: sr.resolve() on the next portion, or the loop is over *)
mr_portion ==
    /\ mpc = "portions"
    /\ IF mi > Len(layer_b)
       THEN /\ mpc' = "pyramid"
            /\ UNCHANGED <<layer_b, mi, id_seq>>
       ELSE \E done \in {resolve(layer_b[mi], id_seq)} :
                /\ layer_b' = [layer_b EXCEPT ![mi] = done.self]
                /\ id_seq' = done.id_seq
                /\ mi' = mi + 1
                /\ UNCHANGED mpc
    /\ UNCHANGED <<schema, refs, mr, layer_a, calls, serialVars, cmp>>

(* Lines 265-267: a new layer starts *)
mr_layer ==
    /\ mpc = "pyramid"
    /\ layer_a' = layer_b
    /\ layer_b' = <<>>
    /\ mi' = 1
    /\ mpc' = "pairs"
    /\ UNCHANGED <<schema, refs, id_seq, mr, calls, serialVars, cmp>>

(* Lines 268-280: the next pair of layer_a; after the last, the loop ends *)
(* when layer_b holds one resolver                                        *)
mr_pair ==
    /\ mpc = "pairs"
    /\ \E pairs \in {Slices(layer_a, 2)} :
           IF mi > Len(pairs)
           THEN /\ mpc' = IF Len(layer_b) = 1 THEN "merge" ELSE "pyramid"
                /\ UNCHANGED <<layer_b, mi, id_seq>>
           ELSE \E done \in {pyramid_pair(pairs[mi], id_seq)} :
                    /\ layer_b' = Append(layer_b, done.self)
                    /\ id_seq' = done.id_seq
                    /\ mi' = mi + 1
                    /\ UNCHANGED mpc
    /\ UNCHANGED <<schema, refs, mr, layer_a, calls, serialVars, cmp>>

(* Lines 282-286, and resolve() returns *)
mr_merge ==
    /\ mpc = "merge"
    /\ \E done \in {merge_into_main(mr, layer_b[1], id_seq)} :
           /\ mr' = done.self
           /\ id_seq' = done.id_seq
    /\ mpc' = "returned"
    /\ UNCHANGED <<schema, refs, layer_a, layer_b, mi, calls, serialVars, cmp>>

Next ==
    \/ Add
    \/ resolve_call
    \/ resolve_next
    \/ stream_step

Spec == Init /\ [][Next]_vars

(* The dicts _cluster_stream holds at line 177: the cluster_map it was given, *)
(* which is the resolver's own (lines 198 and 206), and the local map of     *)
(* lines 173-176                                                             *)
stream_dicts(cluster_map, best_pair) ==
    [cluster_map       |-> cluster_map,
     local_cluster_map |-> <<Get(cluster_map, best_pair.cluster_oid_1),
                             Get(cluster_map, best_pair.cluster_oid_2)>>]

(* _cluster_solve mutates the dict it is given (lines 89-91, 114) and returns *)
(* it: after the call the dict named by the argument holds the solution       *)
solve_in_place(dicts, argument, solved) ==
    [dicts    |-> [dicts EXCEPT ![argument] = solved.cluster_map],
     solution |-> solved.cluster_map,
     id_seq   |-> solved.id_seq]

call_cluster_solve(dicts, argument, id) ==
    solve_in_place(dicts, argument, cluster_solve(dicts[argument], id))

(* Variant: _cluster_solve is given cluster_map itself *)
stream_call_solve_own(dicts, id) == call_cluster_solve(dicts, "cluster_map", id)

(* Line 177: self._cluster_solve(local_cluster_map) *)
stream_call_solve(dicts, id) == call_cluster_solve(dicts, "local_cluster_map", id)

(* Line 166: the pair_set is empty, the completion loop is left *)
stream_break ==
    /\ pc = "stream"
    /\ stream_pair_set(sr.cluster_map, active_clusters) = <<>>
    /\ stream_step

(* Lines 155-177: a pass of the completion loop up to the return of the *)
(* call of _cluster_solve                                               *)
stream_solve ==
    /\ pc = "stream"
    /\ \E pair_set \in {stream_pair_set(sr.cluster_map, active_clusters)} :
          /\ pair_set # <<>>
          /\ \E call \in {stream_call_solve(stream_dicts(sr.cluster_map, pop(pair_set)),
                                            id_seq)} :
                /\ sr' = [sr EXCEPT !.cluster_map = call.dicts.cluster_map]
                /\ cmp' = [op |-> "_cluster_solve", best_pair |-> pop(pair_set),
                           solution |-> call.solution]
                /\ id_seq' = call.id_seq
          /\ tie' = (tie \/ HasTie(pair_set))
    /\ active_clusters' = <<>>
    /\ pc' = "write_back"
    /\ UNCHANGED <<schema, refs, ri, n_added, ingested, split, committed, mergeVars>>

(* Lines 179-187: the rest of the pass *)
stream_write ==
    /\ pc = "write_back"
    /\ \E back \in {stream_write_back(sr.cluster_map, cmp.solution,
                                      cmp.best_pair.cluster_oid_1,
                                      cmp.best_pair.cluster_oid_2)} :
          /\ sr' = [sr EXCEPT !.cluster_map = back.cluster_map]
          /\ active_clusters' = back.active_clusters
    /\ cmp' = NoCall
    /\ pc' = "stream"
    /\ UNCHANGED <<schema, refs, id_seq, ri, n_added, ingested, tie, split,
                   committed, mergeVars>>

(* The resolver with the call of _cluster_solve as a step of its own *)
NextLocal ==
    \/ Add
    \/ resolve_call
    \/ resolve_next
    \/ stream_break
    \/ stream_solve
    \/ stream_write

SpecLocal == Init /\ [][NextLocal]_vars

(* What every pass of the completion loop does: it leaves the loop, or it *)
(* merges and takes one oid                                              *)
StreamProgress ==
    /\ pc = "stream"
    /\ pc' \in {"stream", "resolve"}
    /\ id_seq' \in {id_seq, id_seq + 1}

(* The completion loop is a loop without a wait: its next pass is taken *)
SpecStreamFair == Spec /\ WF_<<pc, id_seq>>(StreamProgress)

NextRaise ==
    \/ Next
    \/ compare_raises

(* The SerialResolver with a Field.compare that may raise *)
SpecRaise == Init /\ [][NextRaise]_vars

(* References constructed, then MergeResolver(references, merge_unit_size) *)
InitMerge ==
    \E s \in ResolverSchemas, n \in 0..NRefs :
      \E kw \in [0..(n - 1) -> ResolverKwargs(s)], size \in 1..NRefs :
        /\ schema = s
        /\ refs = Construct(s, n, kw)
        /\ id_seq = n
        /\ mr = MergeResolver([j \in 1..n |-> j - 1], size)
        /\ mpc = "constructed"
        /\ layer_a = <<>>
        /\ layer_b = <<>>
        /\ mi = 0
        /\ calls = 0
        /\ SerialIdle
        /\ cmp = NoCall

NextMerge ==
    \/ mr_resolve_call
    \/ mr_portion
    \/ mr_layer
    \/ mr_pair
    \/ mr_merge

SpecMerge == InitMerge /\ [][NextMerge]_vars

(* Two References of one class, to be compared *)
InitCompare ==
    \E s \in CompareSchemas, kw \in [0..1 -> AnyKwargs] :
        /\ schema = s
        /\ refs = Construct(s, 2, kw)
        /\ id_seq = 2
        /\ SerialIdle
        /\ MergeIdle
        /\ cmp = NoCall

(* self.compare(other) on two References *)
reference_compare(self, other) ==
    /\ cmp' = [op |-> "Reference.compare", self |-> self, other |-> other,
               score |-> Reference_compare(refs[self], refs[other])]
    /\ UNCHANGED <<schema, refs, id_seq, serialVars, mergeVars>>

NextCompare ==
    \E self \in DOMAIN refs, other \in DOMAIN refs : reference_compare(self, other)

SpecCompare == InitCompare /\ [][NextCompare]_vars

(* References constructed, then MergeResolver(references[:k], size): the *)
(* references from the k-th on are kept back for add()                   *)
InitMergeAdd ==
    \E s \in ResolverSchemas, n \in 2..NRefs :
      \E kw \in [0..(n - 1) -> ResolverKwargs(s)], k \in 1..(n - 1), size \in 1..2 :
        /\ schema = s
        /\ refs = Construct(s, n, kw)
        /\ id_seq = n
        /\ mr = MergeResolver([j \in 1..k |-> j - 1], size)
        /\ mpc = "constructed"
        /\ layer_a = <<>>
        /\ layer_b = <<>>
        /\ mi = 0
        /\ calls = 0
        /\ SerialIdle
        /\ cmp = NoCall

(* The references the MergeResolver was not constructed with, in order *)
KeptBack ==
    [j \in 1..(NumRefs - Len(mr.references)) |-> Len(mr.references) + j - 1]

(* MergeResolver.add(new_observation), between two resolve() calls: the *)
(* references kept back as a list, or the first of them                 *)
mr_add(is_list) ==
    /\ mpc \in {"constructed", "returned"}
    /\ mr' = MergeResolver_add(mr, is_list, KeptBack)
    /\ cmp' = [op |-> "MergeResolver.add", is_list |-> is_list,
               new_observation |-> IF is_list THEN KeptBack ELSE <<KeptBack[1]>>,
               calls |-> calls]
    /\ UNCHANGED <<schema, refs, id_seq, mpc, layer_a, layer_b, mi, calls,
                   serialVars>>

NextMergeAdd ==
    \/ NextMerge
    \/ \E is_list \in BOOLEAN : mr_add(is_list)

SpecMergeAdd == InitMergeAdd /\ [][NextMergeAdd]_vars

(* The ways to put references 0..n-1 into clusters: f[r] is the cluster of *)
(* r, the clusters numbered in the order of their first reference         *)
Groupings(n) ==
    {f \in [0..(n - 1) -> 1..n] :
        \A r \in 0..(n - 1) :
            \/ f[r] = 1
            \/ \E q \in 0..(r - 1) : f[q] = f[r] - 1 \/ f[q] = f[r]}

(* The cluster_map {c.oid: c} of the clusters of a grouping, built in order *)
GroupedMap(f, id) ==
    [k \in 1..Cardinality({f[r] : r \in DOMAIN f}) |->
        Cluster(id + k - 1, {r \in DOMAIN f : f[r] = k})]

(* References constructed and put into clusters; _cluster_solve is called *)
(* on the map of these clusters                                           *)
InitSolve ==
    \E s \in ResolverSchemas, n \in 0..NRefs :
      \E kw \in [0..(n - 1) -> ResolverKwargs(s)], f \in Groupings(n) :
        /\ schema = s
        /\ refs = Construct(s, n, kw)
        /\ id_seq = n + Len(GroupedMap(f, n))
        /\ sr = [SerialResolver(<<>>) EXCEPT !.cluster_map = GroupedMap(f, n)]
        /\ pc = "solve"
        /\ ri = 0
        /\ active_clusters = <<>>
        /\ n_added = 0
        /\ ingested = <<>>
        /\ tie = FALSE
        /\ split = FALSE
        /\ committed = <<>>
        /\ MergeIdle
        /\ cmp = NoCall

(* _cluster_solve, lines 112-116: one pass of the loop; the loop is left *)
(* when the pass reports the map optimal                                 *)
solve_pass ==
    /\ pc = "solve"
    /\ \E pass \in {cluster_pass(sr.cluster_map, id_seq)} :
           /\ sr' = [sr EXCEPT !.cluster_map = pass.cluster_map]
           /\ id_seq' = pass.id_seq
           /\ pc' = IF pass.is_optimal THEN "solved" ELSE "solve"
    /\ UNCHANGED <<schema, refs, ri, active_clusters, n_added, ingested, tie,
                   split, committed, mergeVars, cmp>>

SpecSolve == InitSolve /\ [][solve_pass]_vars

(* The two places that merge: _cluster_stream while a resolver ingests, and *)
(* _cluster_solve called on a map of clusters                               *)
InitMerging == Init \/ InitSolve

NextMerging ==
    \/ Next
    \/ solve_pass

SpecMerging == InitMerging /\ [][NextMerging]_vars

(* What every pass does: it sets pc again and may take one oid *)
SolveProgress ==
    /\ pc = "solve"
    /\ pc' \in {"solve", "solved"}
    /\ id_seq' \in {id_seq, id_seq + 1}

(* _cluster_solve is a loop without a wait: its next pass is taken *)
SpecSolveFair == SpecSolve /\ WF_<<pc, id_seq>>(SolveProgress)

(* A resolve() call of the MergeResolver is under way *)
Running == mpc \in {"portions", "pyramid", "pairs", "merge"}

(* What every step of a running call does: mr_portion, mr_layer, mr_pair  *)
(* and mr_merge each change mpc or mi                                     *)
Progress ==
    /\ Running
    /\ mpc' \in {"portions", "pyramid", "pairs", "merge", "returned"}
    /\ mi' \in 0..(NRefs + 1)

(* resolve() is synchronous: a call under way takes its next step *)
SpecMergeFair == SpecMerge /\ WF_<<mpc, mi>>(Progress)

(* References constructed; two Clusters are then built from them *)
InitCluster ==
    \E s \in ResolverSchemas, n \in 1..NRefs :
      \E kw \in [0..(n - 1) -> ResolverKwargs(s)] :
        /\ schema = s
        /\ refs = Construct(s, n, kw)
        /\ id_seq = n
        /\ SerialIdle
        /\ MergeIdle
        /\ cmp = NoCall

(* c1 = Cluster(references_1); c2 = Cluster(references_2); c1.weightsum(c2) *)
cluster_weightsum(references_1, references_2) ==
    /\ cmp = NoCall
    /\ cmp' = [op    |-> "Cluster.weightsum",
               self  |-> Cluster(id_seq, references_1),
               other |-> Cluster(id_seq + 1, references_2),
               score |-> weightsum(Cluster(id_seq, references_1),
                                   Cluster(id_seq + 1, references_2))]
    /\ id_seq' = id_seq + 2
    /\ UNCHANGED <<schema, refs, serialVars, mergeVars>>

(* c1 = Cluster(references_1); c2 = Cluster(references_2); c1.compare(c2) *)
cluster_compare(references_1, references_2) ==
    /\ cmp = NoCall
    /\ cmp' = [op    |-> "Cluster.compare",
               self  |-> Cluster(id_seq, references_1),
               other |-> Cluster(id_seq + 1, references_2),
               score |-> Cluster_compare(Cluster(id_seq, references_1),
                                         Cluster(id_seq + 1, references_2))]
    /\ id_seq' = id_seq + 2
    /\ UNCHANGED <<schema, refs, serialVars, mergeVars>>

NextCluster ==
    \E references_1 \in (SUBSET DOMAIN refs) \ {{}},
       references_2 \in (SUBSET DOMAIN refs) \ {{}} :
        \/ cluster_weightsum(references_1, references_2)
        \/ cluster_compare(references_1, references_2)

SpecCluster == InitCluster /\ [][NextCluster]_vars

(* a = Cluster(references_1); b = Cluster(references_2); a.merge(b), and a *)
(* third cluster c = Cluster(references_3) to ask has_common_block of      *)
cluster_merge(references_1, references_2, references_3) ==
    /\ cmp = NoCall
    /\ cmp' = [op     |-> "Cluster.merge",
               self   |-> Cluster(id_seq, references_1),
               other  |-> Cluster(id_seq + 1, references_2),
               third  |-> Cluster(id_seq + 2, references_3),
               merged |-> merge(Cluster(id_seq, references_1),
                                Cluster(id_seq + 1, references_2), id_seq + 3)]
    /\ id_seq' = id_seq + 4
    /\ UNCHANGED <<schema, refs, serialVars, mergeVars>>

NextClusterMerge ==
    \E references_1 \in (SUBSET DOMAIN refs) \ {{}},
       references_2 \in (SUBSET DOMAIN refs) \ {{}},
       references_3 \in (SUBSET DOMAIN refs) \ {{}} :
        cluster_merge(references_1, references_2, references_3)

SpecClusterMerge == InitCluster /\ [][NextClusterMerge]_vars

-----------------------------------------------------------------------------
(* Properties *)

(* No two clusters of the map have a positive weightsum with each other *)
LocallyOptimal(cluster_map) ==
    \A i, j \in DOMAIN cluster_map :
        i # j => ~(weightsum(cluster_map[i], cluster_map[j]) > 0)

(* The partition of the references a cluster_map stands for *)
Partition(cluster_map) == {cluster_map[k].references : k \in DOMAIN cluster_map}

Holders(cluster_map, r) == {k \in DOMAIN cluster_map : r \in cluster_map[k].references}

Occurrences(seq, r) == Cardinality({k \in DOMAIN seq : seq[k] = r})

Merged(cluster_map) ==
    \E k \in DOMAIN cluster_map : Cardinality(cluster_map[k].references) >= 2

(* C1: after SerialResolver.resolve() has returned, no two distinct clusters *)
(* of cluster_map have weightsum > 0 with each other.                        *)
C1_SerialLocallyOptimal ==
    pc = "returned" => LocallyOptimal(sr.cluster_map)

(* resolve() returned with a merged cluster and with two clusters that share *)
(* a block and score negatively                                              *)
C1_Witness ==
    /\ pc = "returned"
    /\ Merged(sr.cluster_map)
    /\ \E i, j \in DOMAIN sr.cluster_map :
          /\ i # j
          /\ has_common_block(sr.cluster_map[i], sr.cluster_map[j])
          /\ PairwiseScore(sr.cluster_map[i], sr.cluster_map[j]) < 0

(* C2: after every resolve() of the SerialResolver, with each reference added *)
(* once, every reference is in as many clusters of cluster_map as times it    *)
(* was ingested: the clusters hold exactly the ingested references, each in   *)
(* one cluster.                                                               *)
C2_SerialConservation ==
    pc = "returned" =>
        /\ \A r \in DOMAIN refs :
              Cardinality(Holders(sr.cluster_map, r)) = Occurrences(ingested, r)
        /\ \A r \in DOMAIN refs : Occurrences(ingested, r) = IF r < n_added THEN 1 ELSE 0

(* Two resolve() calls ingested three references or more, and some merged *)
C2_Witness ==
    /\ pc = "returned"
    /\ split
    /\ Len(ingested) >= 3
    /\ Len(sr.cluster_map) < Len(ingested)

(* C3: with an empty list of references MergeResolver.resolve(), once called, *)
(* returns, and cluster_map is empty then.                                    *)
C3_EmptyInputResolves ==
    (mpc = "portions" /\ mr.references = <<>>)
        ~> (mpc = "returned" /\ mr.cluster_map = <<>>)

(* The SerialResolver half of C3: resolve() on an empty resolver that was *)
(* given nothing returns with an empty cluster_map                        *)
SerialEmptyInputResolves ==
    (pc = "returned" /\ n_added = 0) => sr.cluster_map = <<>>

OneBlockingKey(r) ==
    /\ Cardinality(DOMAIN r.blocking_keys) = 1
    /\ \A n \in DOMAIN r.blocking_keys : r.blocking_keys[n] # None

(* C4: when every reference has exactly one blocking key name with one value, *)
(* then after SerialResolver.resolve() no cluster holds two references with   *)
(* different blocking key values.                                             *)
C4_BlockPurity ==
    (pc = "returned" /\ \A r \in DOMAIN refs : OneBlockingKey(refs[r])) =>
        \A k \in DOMAIN sr.cluster_map :
            \A r1, r2 \in sr.cluster_map[k].references :
                refs[r1].blocking_keys = refs[r2].blocking_keys

(* A merged cluster, and two clusters of different blocks whose references *)
(* score positively: only blocking keeps them apart                        *)
C4_Witness ==
    /\ pc = "returned"
    /\ DOMAIN schema.blocking_keys # {}
    /\ \A r \in DOMAIN refs : OneBlockingKey(refs[r])
    /\ Merged(sr.cluster_map)
    /\ \E i, j \in DOMAIN sr.cluster_map :
          /\ ~has_common_block(sr.cluster_map[i], sr.cluster_map[j])
          /\ PairwiseScore(sr.cluster_map[i], sr.cluster_map[j]) > 0

(* C5: after MergeResolver.resolve() has returned on a non-empty input, with *)
(* any merge_unit_size, no two distinct clusters of its cluster_map have     *)
(* weightsum > 0 with each other.                                            *)
C5_MergeLocallyOptimal ==
    (mpc = "returned" /\ mr.references # <<>>) => LocallyOptimal(mr.cluster_map)

(* Three chunks of one reference, an odd number, end in two clusters *)
C5_Witness ==
    /\ mpc = "returned"
    /\ mr.merge_unit_size = 1
    /\ Len(mr.references) = 3
    /\ Len(mr.cluster_map) = 2
    /\ Merged(mr.cluster_map)

(* C6: after MergeResolver.resolve() has returned on a non-empty input of   *)
(* distinct references, every input reference is in exactly one cluster of  *)
(* cluster_map and the clusters hold input references only.                 *)
C6_MergePartition ==
    (mpc = "returned" /\ calls = 1 /\ mr.references # <<>>) =>
        /\ \A r \in Range(mr.references) :
              Cardinality(Holders(mr.cluster_map, r)) = 1
        /\ \A k \in DOMAIN mr.cluster_map :
              /\ mr.cluster_map[k].references # {}
              /\ mr.cluster_map[k].references \subseteq Range(mr.references)

(* Three references in chunks of two and one, all merged into one cluster *)
C6_Witness ==
    /\ mpc = "returned"
    /\ calls = 1
    /\ mr.merge_unit_size = 2
    /\ Len(mr.references) = 3
    /\ Len(mr.cluster_map) = 1

(* C7: a MergeResolver whose merge_unit_size is at least the number of       *)
(* references ends in the partition a SerialResolver makes of the same       *)
(* references in the same order.                                             *)
C7_MergeEqualsSerial ==
    (mpc = "returned" /\ calls = 1 /\ mr.merge_unit_size >= Len(mr.references)) =>
        Partition(mr.cluster_map)
            = Partition(resolve(SerialResolver(mr.references), NumRefs).self.cluster_map)

(* One chunk of three references that ends in two clusters *)
C7_Witness ==
    /\ mpc = "returned"
    /\ calls = 1
    /\ mr.merge_unit_size >= Len(mr.references)
    /\ Len(mr.references) = 3
    /\ Len(mr.cluster_map) = 2

(* The references handed to the SerialResolver so far, in order *)
Added == [k \in 1..n_added |-> k - 1]

(* C8: when no pop had to choose among several maximal pairs, the partition  *)
(* reached by any sequence of add and resolve calls is the partition reached *)
(* by one resolve() over all the added references from the same first state. *)
C8_SplitEqualsBatch ==
    (pc = "returned" /\ ~tie) =>
        Partition(sr.cluster_map)
            = Partition(resolve_loop(Added, 1, [cluster_map |-> <<>>, id_seq |-> NumRefs]).cluster_map)

(* References were ingested by two resolve() calls or more, without a tie, *)
(* and some merged                                                         *)
C8_Witness ==
    /\ pc = "returned"
    /\ split
    /\ ~tie
    /\ Len(ingested) >= 3
    /\ Merged(sr.cluster_map)

(* C9: when a Field.compare raised during resolve(), cluster_map is the     *)
(* cluster_map as it stood after the last completed _cluster_stream call.   *)
C9_NoPartialState ==
    pc = "raised" => sr.cluster_map = committed

(* What does hold when Field.compare raised: every ingested reference,    *)
(* the one in flight included, is in exactly one cluster                  *)
RaisedStillPartition ==
    pc = "raised" =>
        \A r \in DOMAIN refs :
            Cardinality(Holders(sr.cluster_map, r)) = Occurrences(ingested, r)

(* Whether Reference.compare scores this field of r against itself *)
Scored(r, fn) ==
    /\ fn \in DOMAIN r.fields
    /\ r.fields[fn] # None
    /\ ~schema.fields[fn].exclude

SelfCompare == cmp.op = "Reference.compare" /\ cmp.self = cmp.other

(* C10 as stated: for every reference r, r.compare(r) > 0. *)
C10_SelfComparePositive ==
    SelfCompare => cmp.score > 0

(* C10, amended: r.compare(r) > 0 for every reference r that has a populated, *)
(* non-excluded field and whose such fields all have p_match > p_nomatch.     *)
C10_SelfComparePositive_Scored ==
    (/\ SelfCompare
     /\ \E fn \in FieldNames : Scored(refs[cmp.self], fn)
     /\ \A fn \in FieldNames :
           Scored(refs[cmp.self], fn) =>
               schema.fields[fn].true_match_probability
                   > schema.fields[fn].false_match_probability)
        => cmp.score > 0

(* A reference with two scored fields was compared with itself *)
C10_Witness ==
    /\ SelfCompare
    /\ \A fn \in FieldNames :
          /\ Scored(refs[cmp.self], fn)
          /\ schema.fields[fn].true_match_probability
                 > schema.fields[fn].false_match_probability
    /\ cmp.score > 0

(* The fields of r that hold a value *)
Populated(r) == {fn \in DOMAIN r.fields : r.fields[fn] # None}

CompareCalled == cmp.op = "Reference.compare"

(* C11: for two references of one class whose fields are all populated,     *)
(* r1.compare(r2) is r2.compare(r1); Field.compare is the library's value   *)
(* equality.                                                                *)
C11_CompareCommutative ==
    (/\ CompareCalled
     /\ Populated(refs[cmp.self]) = FieldNames
     /\ Populated(refs[cmp.other]) = FieldNames)
        => cmp.score = Reference_compare(refs[cmp.other], refs[cmp.self])

(* Two fully populated references that agree on one scored field and differ *)
(* on the other were compared                                               *)
C11_Witness ==
    /\ CompareCalled
    /\ cmp.self # cmp.other
    /\ Populated(refs[cmp.self]) = FieldNames
    /\ Populated(refs[cmp.other]) = FieldNames
    /\ \A fn \in FieldNames : ~schema.fields[fn].exclude
    /\ Cardinality({fn \in FieldNames :
                       refs[cmp.self].fields[fn] = refs[cmp.other].fields[fn]}) = 1
    /\ cmp.score # 0

(* C12: a reference with no populated field compares to any reference, and *)
(* any reference to it, with score 0.                                       *)
C12_UnpopulatedScoresZero ==
    (/\ CompareCalled
     /\ Populated(refs[cmp.self]) = {} \/ Populated(refs[cmp.other]) = {})
        => cmp.score = 0

(* A reference with both fields populated and scored was compared to one *)
(* whose fields are given as None                                        *)
C12_Witness ==
    /\ CompareCalled
    /\ Populated(refs[cmp.self]) = FieldNames
    /\ \A fn \in FieldNames : ~schema.fields[fn].exclude
    /\ DOMAIN refs[cmp.other].fields = FieldNames
    /\ Populated(refs[cmp.other]) = {}
    /\ cmp.score = 0

(* The reference without the fields whose class has exclude set *)
WithoutExcluded(r) ==
    [r EXCEPT !.fields =
        [fn \in {f \in DOMAIN r.fields : ~schema.fields[f].exclude} |-> r.fields[fn]]]

(* The Fellegi-Sunter contributions of the fields populated on both sides *)
(* whose class does not set exclude                                       *)
ScoredSum(self, other) ==
    SumFn([fn \in {f \in Populated(self) \cap Populated(other) :
                      ~schema.fields[f].exclude} |->
              fellegi_sunter_adjustment(
                  Field_compare(self.fields[fn], other.fields[fn]),
                  schema.fields[fn].true_match_probability,
                  schema.fields[fn].false_match_probability)])

(* C13: the score of two references is the sum of the contributions of   *)
(* their populated fields that are not excluded, and is the score of the *)
(* two references without their excluded fields.                         *)
C13_ExcludedContributesNothing ==
    CompareCalled =>
        /\ cmp.score = ScoredSum(refs[cmp.self], refs[cmp.other])
        /\ cmp.score = Reference_compare(WithoutExcluded(refs[cmp.self]),
                                         WithoutExcluded(refs[cmp.other]))

(* Two references that agree on the scored field and differ on the excluded *)
(* one were compared: the score is the contribution of the scored field     *)
C13_Witness ==
    /\ CompareCalled
    /\ schema.fields["f2"].exclude
    /\ Populated(refs[cmp.self]) = FieldNames
    /\ Populated(refs[cmp.other]) = FieldNames
    /\ refs[cmp.self].fields["f1"] = refs[cmp.other].fields["f1"]
    /\ refs[cmp.self].fields["f2"] # refs[cmp.other].fields["f2"]
    /\ cmp.score = Log(schema.fields["f1"].true_match_probability,
                       schema.fields["f1"].false_match_probability)

WeightsumCalled == cmp.op = "Cluster.weightsum"

(* On every blocking key name both clusters have, their value sets are disjoint *)
DisjointBlocks(c1, c2) ==
    \A bkn \in (DOMAIN c1.blocking_keys) \cap (DOMAIN c2.blocking_keys) :
        c1.blocking_keys[bkn] \cap c2.blocking_keys[bkn] = {}

(* C14: two clusters whose blocking-key value sets are disjoint on every key *)
(* name they share have weightsum 0, whatever their references score.        *)
C14_DisjointBlocksWeighZero ==
    (WeightsumCalled /\ DisjointBlocks(cmp.self, cmp.other)) => cmp.score = 0

(* Two clusters of different blocks whose references score positively *)
C14_Witness ==
    /\ WeightsumCalled
    /\ DisjointBlocks(cmp.self, cmp.other)
    /\ \A bkn \in DOMAIN cmp.self.blocking_keys : cmp.self.blocking_keys[bkn] # {}
    /\ \A bkn \in DOMAIN cmp.other.blocking_keys : cmp.other.blocking_keys[bkn] # {}
    /\ PairwiseScore(cmp.self, cmp.other) > 0
    /\ cmp.score = 0

(* C15: c1.weightsum(c2) is max(0, c1.compare(c2)), and so never negative; *)
(* c1.compare(c2) is the sum of ref_1.compare(ref_2) over the references   *)
(* of the two clusters when they share a block, and 0 when they do not.    *)
C15_WeightsumIsClampedCompare ==
    /\ WeightsumCalled =>
          /\ cmp.score = Max(0, Cluster_compare(cmp.self, cmp.other))
          /\ cmp.score >= 0
    /\ cmp.op = "Cluster.compare" =>
          cmp.score = IF DisjointBlocks(cmp.self, cmp.other) THEN 0
                      ELSE SumFn([p \in cmp.self.references \X cmp.other.references |->
                                     Reference_compare(refs[p[1]], refs[p[2]])])

(* Two clusters of one block, one of them of two references, whose compare *)
(* is negative: the weightsum is 0                                         *)
C15_Witness ==
    /\ WeightsumCalled
    /\ ~DisjointBlocks(cmp.self, cmp.other)
    /\ Cardinality(cmp.self.references) >= 2
    /\ Cluster_compare(cmp.self, cmp.other) < 0
    /\ cmp.score = 0

(* The ingested references are copies of one another: the same fields with *)
(* the same values, the same blocking keys                                 *)
AllIdentical ==
    \A r1, r2 \in Range(ingested) :
        /\ refs[r1].fields = refs[r2].fields
        /\ refs[r1].blocking_keys = refs[r2].blocking_keys

(* All ingested references are in one cluster, the only one *)
OneCluster ==
    /\ Len(sr.cluster_map) = 1
    /\ sr.cluster_map[1].references = Range(ingested)

(* C16 as stated: when all ingested references are identical, resolve() ends *)
(* with exactly one cluster that holds them all.                             *)
C16_IdenticalOneCluster ==
    (pc = "returned" /\ ingested # <<>> /\ AllIdentical) => OneCluster

(* r has a block (a blocking key whose value is not None) and compares *)
(* strictly positively with a copy of itself                           *)
Matchable(r) ==
    /\ \E bkn \in DOMAIN r.blocking_keys : r.blocking_keys[bkn] # None
    /\ Reference_compare(r, r) > 0

(* C16, amended: when all ingested references are identical, have a blocking *)
(* key value that is not None (or the dummy key) and compare strictly        *)
(* positively with themselves, resolve() ends with exactly one cluster that  *)
(* holds them all.                                                           *)
C16_IdenticalOneCluster_Matchable ==
    (/\ pc = "returned"
     /\ ingested # <<>>
     /\ AllIdentical
     /\ \A r \in Range(ingested) : Matchable(refs[r]))
        => OneCluster

(* Three identical references of the class with a blocking key ended in *)
(* one cluster                                                          *)
C16_Witness ==
    /\ pc = "returned"
    /\ Len(ingested) = 3
    /\ AllIdentical
    /\ DOMAIN schema.blocking_keys # {}
    /\ \A r \in Range(ingested) : Matchable(refs[r])
    /\ OneCluster

(* A second run: a new SerialResolver is given the references ingested so *)
(* far, in the order they were ingested, and resolve() is called once; the *)
(* id counter goes on from where it stands                                 *)
SecondRun ==
    resolve_loop(ingested, 1, [cluster_map |-> <<>>, id_seq |-> id_seq]).cluster_map

C18_ResolveDrains ==
    /\ [](pc = "returned" => sr.references = <<>>)
    /\ [][(pc = "returned" /\ pc' = "resolve") => sr'.references = <<>>]_vars
    /\ [][(pc = "resolve" /\ sr.references = <<>>)
             => (pc' = "returned" /\ sr' = sr /\ id_seq' = id_seq)]_vars

(* resolve() was called again with nothing added since the last resolve(), *)
(* which left three references in clusters                                 *)
C18_Witness ==
    /\ pc = "resolve"
    /\ sr.references = <<>>
    /\ Len(ingested) = 3
    /\ n_added = 3
    /\ sr.cluster_map = committed
    /\ Merged(sr.cluster_map)

AddCalled == cmp.op = "MergeResolver.add"

C20_SolveTerminates ==
    /\ [][(pc = "solve" /\ pc' = "solve")
             => Len(sr'.cluster_map) = Len(sr.cluster_map) - 1]_vars
    /\ [][pc = "solve" => (pc' = "solved" <=> LocallyOptimal(sr.cluster_map))]_vars
    /\ [][pc' = "solved" => (sr' = sr /\ id_seq' = id_seq)]_vars
    /\ (pc = "solve") ~> (pc = "solved")

(* cluster_solve ended on a map that began as three clusters and is one *)
C20_Witness ==
    /\ pc = "solved"
    /\ NumRefs = 3
    /\ id_seq = 2 * NumRefs + 2
    /\ Len(sr.cluster_map) = 1

(* The pair the next pass of the completion loop pops *)
PoppedPair == pop(stream_pair_set(sr.cluster_map, active_clusters))

(* A pass of the completion loop that does not leave the loop *)
MergingPass == pc = "stream" /\ pc' = "stream"

(* Every pass of the completion loop leaves the loop or takes an oid: no *)
(* pass leaves the state as it was                                       *)
StreamPassMoves ==
    pc = "stream" =>
        \/ stream_pair_set(sr.cluster_map, active_clusters) = <<>>
        \/ stream_iteration(sr.cluster_map, active_clusters, id_seq).id_seq = id_seq + 1

(* C21: a pass of the completion loop whose pair set is not empty merges the *)
(* two clusters of the popped pair: their oids leave cluster_map, the merged *)
(* cluster is the only active cluster, and cluster_map has one cluster less; *)
(* a pass whose pair set is empty leaves the loop; and the loop, once        *)
(* entered, is left.                                                         *)
C21_StreamTerminates ==
    /\ [][pc = "stream" =>
             (pc' = "stream"
                 <=> stream_pair_set(sr.cluster_map, active_clusters) # <<>>)]_vars
    /\ [][MergingPass =>
             /\ ~HasOid(sr'.cluster_map, PoppedPair.cluster_oid_1)
             /\ ~HasOid(sr'.cluster_map, PoppedPair.cluster_oid_2)
             /\ Len(active_clusters') = 1
             /\ HasOid(sr'.cluster_map, active_clusters'[1].oid)
             /\ active_clusters'[1].references
                   = Get(sr.cluster_map, PoppedPair.cluster_oid_1).references
                        \cup Get(sr.cluster_map, PoppedPair.cluster_oid_2).references
             /\ Len(sr'.cluster_map) = Len(sr.cluster_map) - 1]_vars
    /\ (pc = "stream") ~> (pc = "resolve")

(* The third reference is being inserted, a first pass has merged it with *)
(* one of two clusters, and the merged cluster is active                  *)
C21_Witness ==
    /\ pc = "stream"
    /\ Len(ingested) = 3
    /\ Len(sr.cluster_map) = 2
    /\ Len(active_clusters) = 1
    /\ Cardinality(active_clusters[1].references) = 2
    /\ ingested[3] \in active_clusters[1].references

(* The clusters a step has put into cluster_map by merging: new oid, more *)
(* than the one reference of an inserted observation                      *)
MergedByStep ==
    {k \in DOMAIN sr'.cluster_map :
        /\ ~HasOid(sr.cluster_map, sr'.cluster_map[k].oid)
        /\ Cardinality(sr'.cluster_map[k].references) > 1}

(* The pairs of clusters of cluster_map whose references c holds, and no other *)
InputsOf(c) ==
    {p \in (DOMAIN sr.cluster_map) \X (DOMAIN sr.cluster_map) :
        /\ p[1] # p[2]
        /\ c.references = sr.cluster_map[p[1]].references
                             \cup sr.cluster_map[p[2]].references}

(* C22: every cluster a pass of _cluster_pass or of the completion loop of *)
(* _cluster_stream puts into cluster_map by merging joins two clusters of  *)
(* the map that have a common block and whose weightsum, taken in the map  *)
(* as it is before the merge, is strictly positive.                        *)
C22_MergeOnlyPositive ==
    [][\A k \in MergedByStep :
          /\ InputsOf(sr'.cluster_map[k]) # {}
          /\ \A p \in InputsOf(sr'.cluster_map[k]) :
                /\ has_common_block(sr.cluster_map[p[1]], sr.cluster_map[p[2]])
                /\ weightsum(sr.cluster_map[p[1]], sr.cluster_map[p[2]]) > 0
                /\ Cluster_compare(sr.cluster_map[p[1]], sr.cluster_map[p[2]]) > 0]_vars

(* _cluster_solve on three singleton clusters has merged two of them and *)
(* left the third, which weighs nothing against the merged cluster       *)
C22_Witness ==
    /\ pc = "solved"
    /\ DOMAIN refs = 0..2
    /\ Len(sr.cluster_map) = 2
    /\ \E k, l \in DOMAIN sr.cluster_map :
          /\ sr.cluster_map[k].oid = 6
          /\ Cardinality(sr.cluster_map[k].references) = 2
          /\ Cardinality(sr.cluster_map[l].references) = 1
          /\ weightsum(sr.cluster_map[k], sr.cluster_map[l]) = 0
          /\ Cluster_compare(sr.cluster_map[k], sr.cluster_map[l]) < 0

(* The weightsum of the two clusters a step has merged into c is at least *)
(* that of every pair of others \X cluster_map with two different oids    *)
BestAmong(others, c) ==
    \A p \in InputsOf(c) :
        \A i \in DOMAIN others, j \in DOMAIN sr.cluster_map :
            others[i].oid # sr.cluster_map[j].oid =>
                weightsum(sr.cluster_map[p[1]], sr.cluster_map[p[2]])
                    >= weightsum(others[i], sr.cluster_map[j])

(* C23: the pair a pass merges has the maximal score among its candidates: in *)
(* a pass of _cluster_pass, no two clusters of cluster_map weigh more; in a   *)
(* pass of the completion loop of _cluster_stream, no active cluster weighs   *)
(* more with any cluster of cluster_map.                                      *)
C23_MergesBestPair ==
    [][\A k \in MergedByStep :
          /\ pc = "solve" => BestAmong(sr.cluster_map, sr'.cluster_map[k])
          /\ pc = "stream" => BestAmong(active_clusters, sr'.cluster_map[k])]_vars

(* _cluster_solve on three singleton clusters has merged the two that weigh *)
(* most, and the third weighed less, but more than nothing, with one of them *)
C23_Witness ==
    /\ pc = "solve"
    /\ DOMAIN refs = 0..2
    /\ Len(sr.cluster_map) = 2
    /\ \E k, l \in DOMAIN sr.cluster_map :
          /\ sr.cluster_map[k].oid = 6
          /\ Cardinality(sr.cluster_map[k].references) = 2
          /\ Cardinality(sr.cluster_map[l].references) = 1
          /\ \E r \in sr.cluster_map[k].references, q \in sr.cluster_map[l].references :
                /\ Reference_compare(refs[r], refs[q]) > 0
                /\ \A t \in sr.cluster_map[k].references \ {r} :
                      Reference_compare(refs[r], refs[q]) < Reference_compare(refs[r], refs[t])

(* The call of _cluster_solve in a pass of the completion loop has returned *)
SolveReturns == pc = "stream" /\ pc' = "write_back"

(* The pass with the call as a step of its own is the pass of stream_step *)
LocalSolveIsThePass ==
    [][SolveReturns =>
          /\ stream_write_back(sr'.cluster_map, cmp'.solution,
                               cmp'.best_pair.cluster_oid_1,
                               cmp'.best_pair.cluster_oid_2).cluster_map
                = stream_iteration(sr.cluster_map, active_clusters, id_seq).cluster_map
          /\ id_seq' = stream_iteration(sr.cluster_map, active_clusters, id_seq).id_seq]_vars

(* C24: the call of _cluster_solve, and the calls of _cluster_pass in it, *)
(* leave the resolver as it is: its cluster_map, its references and its   *)
(* clusters are after the call what they were before; what the call has   *)
(* changed is the map it was given, the local map of the two clusters of  *)
(* the best pair, which now holds their merge.                            *)
C24_SolveLeavesResolver ==
    [][SolveReturns =>
          /\ sr'.cluster_map = sr.cluster_map
          /\ sr'.references = sr.references
          /\ sr'.clusters = sr.clusters
          /\ HasOid(sr'.cluster_map, cmp'.best_pair.cluster_oid_1)
          /\ HasOid(sr'.cluster_map, cmp'.best_pair.cluster_oid_2)
          /\ Len(cmp'.solution) = 1
          /\ ~HasOid(sr'.cluster_map, cmp'.solution[1].oid)
          /\ cmp'.solution[1].references
                = Get(sr.cluster_map, cmp'.best_pair.cluster_oid_1).references
                     \cup Get(sr.cluster_map, cmp'.best_pair.cluster_oid_2).references]_vars

(* The call has returned while the third reference is ingested: the local map *)
(* holds the merge, the resolver's map still the two clusters and a third     *)
C24_Witness ==
    /\ pc = "write_back"
    /\ Len(ingested) = 3
    /\ Len(sr.cluster_map) = 3
    /\ Len(cmp.solution) = 1
    /\ Cardinality(cmp.solution[1].references) = 2
    /\ HasOid(sr.cluster_map, cmp.best_pair.cluster_oid_1)
    /\ HasOid(sr.cluster_map, cmp.best_pair.cluster_oid_2)

(* The references the clusters of a resolver hold *)
Held(self) == UNION Partition(self.cluster_map)

(* The last pair of a layer is done: line 279 is next *)
LayerDone == mpc = "pairs" /\ mpc' # "pairs" /\ layer_a # <<>>

(* C25: a layer of n >= 1 resolvers gives one of ceil(n/2): resolver i of the *)
(* new layer holds what resolvers 2i-1 and 2i of the old one held, an odd     *)
(* resolver left over is carried forward as it is, the loop is left exactly   *)
(* when the new layer has one resolver, and from k >= 1 chunk resolvers the   *)
(* loop is left.                                                              *)
C25_PyramidTerminates ==
    /\ [][LayerDone =>
             /\ Len(layer_b) = (Len(layer_a) + 1) \div 2
             /\ \A i \in 1..(Len(layer_a) \div 2) :
                   Held(layer_b[i]) = Held(layer_a[2 * i - 1]) \cup Held(layer_a[2 * i])
             /\ Len(layer_a) % 2 = 1 => layer_b[Len(layer_b)] = layer_a[Len(layer_a)]
             /\ mpc' = "merge" <=> Len(layer_b) = 1]_vars
    /\ [](mpc = "merge" => Len(layer_b) = 1)
    /\ (mpc = "pyramid" /\ layer_b # <<>>) ~> (mpc = "merge")

(* Three chunk resolvers of one reference each: a layer of two, made of a *)
(* merged pair and the third carried forward, has given the last one      *)
C25_Witness ==
    /\ mpc = "merge"
    /\ Len(mr.references) = 3
    /\ mr.merge_unit_size = 1
    /\ Len(layer_a) = 2
    /\ Len(layer_b) = 1
    /\ Held(layer_a[1]) = {0, 1}
    /\ Held(layer_a[2]) = {2}
    /\ Held(layer_b[1]) = {0, 1, 2}

(* The clusters of cluster_map after a step that hold more than one *)
(* reference and that no cluster held together before the step      *)
JoinedByStep ==
    {k \in DOMAIN sr'.cluster_map :
        /\ sr'.cluster_map[k].references \notin Partition(sr.cluster_map)
        /\ Cardinality(sr'.cluster_map[k].references) > 1}

(* Every oid issued, to a Reference or to a Cluster of cluster_map, is below *)
(* the counter                                                               *)
IssuedBelowCounter ==
    /\ \A r \in DOMAIN refs : refs[r].oid < id_seq
    /\ \A k \in DOMAIN sr.cluster_map : sr.cluster_map[k].oid < id_seq

(* C26: a merge puts into cluster_map one cluster under an oid taken from the *)
(* counter by this step, so above every oid issued before and the oid of no   *)
(* Reference; the cluster holds the references of two clusters of the map,    *)
(* whose oids are no longer in the map.                                       *)
C26_MergeIsFresh ==
    /\ []IssuedBelowCounter
    /\ [][\A k \in JoinedByStep :
             /\ sr'.cluster_map[k].oid >= id_seq
             /\ sr'.cluster_map[k].oid < id_seq'
             /\ \A r \in DOMAIN refs : refs[r].oid # sr'.cluster_map[k].oid
             /\ \A j \in DOMAIN sr'.cluster_map :
                   sr'.cluster_map[j].oid = sr'.cluster_map[k].oid => j = k
             /\ InputsOf(sr'.cluster_map[k]) # {}
             /\ \A p \in InputsOf(sr'.cluster_map[k]) :
                   /\ ~HasOid(sr'.cluster_map, sr.cluster_map[p[1]].oid)
                   /\ ~HasOid(sr'.cluster_map, sr.cluster_map[p[2]].oid)]_vars

(* Of three references the first two are ingested: their clusters took the *)
(* oids 3 and 4, the merge of the two took 5                               *)
C26_Witness ==
    /\ pc = "stream"
    /\ DOMAIN refs = 0..2
    /\ ingested = <<0, 1>>
    /\ id_seq = 6
    /\ Len(sr.cluster_map) = 1
    /\ sr.cluster_map[1].oid = 5
    /\ sr.cluster_map[1].references = {0, 1}

MergeCalled == cmp.op = "Cluster.merge"

(* The values a cluster has under a blocking key name, none without the name *)
BlockValues(c, bkn) ==
    IF bkn \in DOMAIN c.blocking_keys THEN c.blocking_keys[bkn] ELSE {}

(* C27: the merged cluster has the blocking key names of both inputs and, *)
(* under each, the values of both; it has a common block with a third     *)
(* cluster exactly when one of the inputs has.                            *)
C27_MergeKeepsBlocks ==
    MergeCalled =>
        /\ DOMAIN cmp.merged.blocking_keys
              = (DOMAIN cmp.self.blocking_keys) \cup (DOMAIN cmp.other.blocking_keys)
        /\ \A bkn \in DOMAIN cmp.merged.blocking_keys :
              cmp.merged.blocking_keys[bkn]
                 = BlockValues(cmp.self, bkn) \cup BlockValues(cmp.other, bkn)
        /\ has_common_block(cmp.merged, cmp.third)
              <=> (\/ has_common_block(cmp.self, cmp.third)
                   \/ has_common_block(cmp.other, cmp.third))

(* Two clusters of different blocks are merged: the merged cluster has both *)
(* values, and a common block with a third cluster that one of the inputs   *)
(* has none with                                                            *)
C27_Witness ==
    /\ MergeCalled
    /\ "RSBK" \in DOMAIN cmp.merged.blocking_keys
    /\ cmp.merged.blocking_keys["RSBK"] = FieldValues
    /\ Cardinality(cmp.self.blocking_keys["RSBK"]) = 1
    /\ Cardinality(cmp.other.blocking_keys["RSBK"]) = 1
    /\ ~has_common_block(cmp.self, cmp.third)
    /\ has_common_block(cmp.other, cmp.third)
    /\ has_common_block(cmp.merged, cmp.third)

(* The cluster is one of the two of the pair the next pass pops *)
Popped(c) ==
    /\ stream_pair_set(sr.cluster_map, active_clusters) # <<>>
    /\ c.oid \in {PoppedPair.cluster_oid_1, PoppedPair.cluster_oid_2}

(* C28: a pass of the completion loop leaves every cluster of cluster_map  *)
(* but the two of the popped pair as it is, oid and references, and puts   *)
(* nothing into the map but the merge of the two; and no step of a resolver *)
(* gives another oid to references that stay a cluster or takes a reference *)
(* out of its cluster, so that a cluster not merged during a resolve() has  *)
(* after it the oid it had before.                                          *)
C28_StreamFrame ==
    /\ [][pc = "stream" =>
             /\ \A k \in DOMAIN sr.cluster_map :
                   ~Popped(sr.cluster_map[k]) =>
                       \E j \in DOMAIN sr'.cluster_map :
                           sr'.cluster_map[j] = sr.cluster_map[k]
             /\ \A j \in DOMAIN sr'.cluster_map :
                   \/ \E k \in DOMAIN sr.cluster_map :
                          /\ sr.cluster_map[k] = sr'.cluster_map[j]
                          /\ ~Popped(sr.cluster_map[k])
                   \/ /\ stream_pair_set(sr.cluster_map, active_clusters) # <<>>
                      /\ sr'.cluster_map[j].references
                            = Get(sr.cluster_map, PoppedPair.cluster_oid_1).references
                                 \cup Get(sr.cluster_map, PoppedPair.cluster_oid_2).references]_vars
    /\ [][\A k \in DOMAIN sr.cluster_map :
             /\ \E j \in DOMAIN sr'.cluster_map :
                   sr.cluster_map[k].references \subseteq sr'.cluster_map[j].references
             /\ \A j \in DOMAIN sr'.cluster_map :
                   sr'.cluster_map[j].references = sr.cluster_map[k].references
                       => sr'.cluster_map[j].oid = sr.cluster_map[k].oid]_vars

(* A second resolve() has ingested the third reference and merged it with one *)
(* of the two clusters of the first; the other has the oid it had             *)
C28_Witness ==
    /\ pc = "returned"
    /\ split
    /\ DOMAIN refs = 0..2
    /\ ingested = <<0, 1, 2>>
    /\ Len(sr.cluster_map) = 2
    /\ \E k, j \in DOMAIN sr.cluster_map :
          /\ sr.cluster_map[k].references = {0}
          /\ sr.cluster_map[k].oid = 3
          /\ sr.cluster_map[j].references = {1, 2}
          /\ sr.cluster_map[j].oid = 6

(* A second resolve() on the MergeResolver returns: line 286 of the call *)
SecondResolveReturns == mpc = "merge" /\ mpc' = "returned" /\ calls = 2

(* C29: resolve() does not drain the references of the MergeResolver, and a  *)
(* second resolve() with nothing else changed returns with every reference   *)
(* in exactly one cluster of cluster_map and with the partition the first    *)
(* call left.                                                                *)
C29_SecondResolveSamePartition ==
    /\ [][mpc' = "returned" => mr'.references = mr.references]_vars
    /\ [][SecondResolveReturns =>
             /\ \A r \in Range(mr.references) :
                   Cardinality(Holders(mr'.cluster_map, r)) = 1
             /\ Partition(mr'.cluster_map) = Partition(mr.cluster_map)]_vars

(* The part of C29 that holds: resolve() does not drain the references, and *)
(* when every reference has a block and scores above 0 with itself, the     *)
(* clusters the second call builds of them merge into those of the first    *)
SecondResolveSamePartition_Matchable ==
    /\ [][mpc' = "returned" => mr'.references = mr.references]_vars
    /\ [][(SecondResolveReturns /\ \A r \in Range(mr.references) : Matchable(refs[r])) =>
             /\ \A r \in Range(mr.references) :
                   Cardinality(Holders(mr'.cluster_map, r)) = 1
             /\ Partition(mr'.cluster_map) = Partition(mr.cluster_map)]_vars

(* The second call has returned and a reference is in two clusters *)
SecondResolveDuplicates ==
    /\ mpc = "returned"
    /\ calls = 2
    /\ \E r \in Range(mr.references) : Cardinality(Holders(mr.cluster_map, r)) = 2

====
